---- MODULE Spec2Model ----
(***************************************************************************)
(* A model of detector_virtualISP.py: the pattern library, the maskers,    *)
(* the field classifiers, the signal scorer and detect_and_redact.         *)
(*                                                                         *)
(* A Python str is a sequence of one-character strings.  A regular         *)
(* expression RE_X is modelled by a matcher RE_X(s, i) that gives the      *)
(* match Python's backtracking engine finds when it tries the pattern at   *)
(* position i of s (1-based), as a record of the end of the match and of   *)
(* its groups (ends are exclusive), or NoMatch.  re.search and re.sub are  *)
(* the leftmost scan and the left-to-right non-overlapping replacement     *)
(* built on the matcher.  A value an operator uses several times is        *)
(* passed to a helper operator as an argument.                             *)
(***************************************************************************)
EXTENDS Integers, Sequences, FiniteSets, TLC

----------------------------------------------------------------------------
(* Characters and character classes                                        *)

UpperSeq ==
  <<"A","B","C","D","E","F","G","H","I","J","K","L","M",
    "N","O","P","Q","R","S","T","U","V","W","X","Y","Z">>

LowerSeq ==
  <<"a","b","c","d","e","f","g","h","i","j","k","l","m",
    "n","o","p","q","r","s","t","u","v","w","x","y","z">>

DigitSeq == <<"0","1","2","3","4","5","6","7","8","9">>

Range(f) == { f[i] : i \in DOMAIN f }

Upper == Range(UpperSeq)
Lower == Range(LowerSeq)
Letter == Upper \cup Lower
\* \d
Digit == Range(DigitSeq)
Alnum == Letter \cup Digit
\* \w, the characters on the word side of \b
WordChar == Alnum \cup {"_"}
\* \s, and what str.strip() removes, among the characters written here
Space == {" ", "\t", "\n", "\r", "\f"}

\* c.upper() and c.lower() of one character
UpperOf(c) ==
  IF c \in Lower THEN UpperSeq[CHOOSE i \in DOMAIN LowerSeq : LowerSeq[i] = c] ELSE c

LowerOf(c) ==
  IF c \in Upper THEN LowerSeq[CHOOSE i \in DOMAIN UpperSeq : UpperSeq[i] = c] ELSE c

\* int(c) of one digit
DigitVal(c) == (CHOOSE i \in DOMAIN DigitSeq : DigitSeq[i] = c) - 1

----------------------------------------------------------------------------
(* Strings                                                                 *)

\* what a look-around sees beyond either end of the string
EOS == ""

At(s, i) == IF i >= 1 /\ i <= Len(s) THEN s[i] ELSE EOS

\* s[i:j], with i inclusive and j exclusive, 1-based
Slice(s, i, j) == IF j <= i THEN <<>> ELSE SubSeq(s, i, j - 1)

\* c * n
Rep(c, n) == [k \in 1..n |-> c]

Max(a, b) == IF a >= b THEN a ELSE b

\* how many characters of the class C follow from position i on
RECURSIVE RunLen(_, _, _)
RunLen(s, i, C) == IF At(s, i) \in C THEN 1 + RunLen(s, i + 1, C) ELSE 0

\* how many characters outside the class C follow from position i on
RECURSIVE RunLenNot(_, _, _)
RunLenNot(s, i, C) ==
  IF i >= 1 /\ i <= Len(s) /\ s[i] \notin C THEN 1 + RunLenNot(s, i + 1, C) ELSE 0

\* every one of the n characters from position i on is in C
AllIn(s, i, n, C) == \A k \in 0..(n - 1) : At(s, i + k) \in C

\* s.lower()
LowerStr(s) == [k \in DOMAIN s |-> LowerOf(s[k])]

\* s without its trailing characters of the class C
RECURSIVE RStrip(_, _)
RStrip(s, C) ==
  IF s # <<>> /\ s[Len(s)] \in C THEN RStrip(SubSeq(s, 1, Len(s) - 1), C) ELSE s

\* s without its first n characters
Drop(s, n) == SubSeq(s, n + 1, Len(s))

\* s.strip()
Strip(s) == RStrip(Drop(s, RunLen(s, 1, Space)), Space)

\* t in s
HasSubstring(s, t) ==
  \E i \in 1..(Len(s) - Len(t) + 1) : SubSeq(s, i, i + Len(t) - 1) = t

\* int(s) of a string of digits
RECURSIVE IntOf(_)
IntOf(s) ==
  IF s = <<>> THEN 0
  ELSE 10 * IntOf(SubSeq(s, 1, Len(s) - 1)) + DigitVal(s[Len(s)])

----------------------------------------------------------------------------
(* The pattern library                                                     *)

\* a match: e the end; a..b group 1; c..d group 2 (ends exclusive)
NoMatch == [e |-> 0, a |-> 0, b |-> 0, c |-> 0, d |-> 0]

\* ([6-9]\d{9})(?!\d) tried at position j
PhoneCore(s, j) ==
  /\ At(s, j) \in {"6", "7", "8", "9"}
  /\ AllIn(s, j + 1, 9, Digit)
  /\ At(s, j + 10) \notin Digit

\* (?<!\d)(?:\+?91[-\s]?)?([6-9]\d{9})(?!\d): the prefix is tried first, and
\* the ten digits alone when the pattern fails with it
RE_PHONE_STRICT(s, i) ==
  IF At(s, i - 1) \in Digit THEN NoMatch
  ELSE LET p == IF At(s, i) = "+" THEN 1 ELSE 0
           q == IF At(s, i + p + 2) \in ({"-"} \cup Space) THEN 1 ELSE 0
           j == i + p + 2 + q
       IN  IF At(s, i + p) = "9" /\ At(s, i + p + 1) = "1" /\ PhoneCore(s, j)
           THEN [e |-> j + 10, a |-> j, b |-> j + 10, c |-> 0, d |-> 0]
           ELSE IF PhoneCore(s, i)
                THEN [e |-> i + 10, a |-> i, b |-> i + 10, c |-> 0, d |-> 0]
                ELSE NoMatch

\* (?<!\d)(\d{4})[\s-]?(\d{4})[\s-]?(\d{4})(?!\d)
RE_AADHAR(s, i) ==
  IF At(s, i - 1) \in Digit \/ ~AllIn(s, i, 4, Digit) THEN NoMatch
  ELSE LET j == i + 4 + (IF At(s, i + 4) \in (Space \cup {"-"}) THEN 1 ELSE 0)
           k == j + 4 + (IF At(s, j + 4) \in (Space \cup {"-"}) THEN 1 ELSE 0)
       IN  IF AllIn(s, j, 4, Digit) /\ AllIn(s, k, 4, Digit) /\ At(s, k + 4) \notin Digit
           THEN [e |-> k + 4, a |-> i, b |-> i + 4, c |-> j, d |-> j + 4]
           ELSE NoMatch

\* [A-PR-WYa-pr-wy]
PassportLetter == Letter \ {"Q", "X", "Z", "q", "x", "z"}

\* (?<![A-Za-z0-9])([A-PR-WYa-pr-wy])[ ]?(\d{7})(?![A-Za-z0-9])
RE_PASSPORT_IN(s, i) ==
  IF At(s, i - 1) \in Alnum \/ At(s, i) \notin PassportLetter THEN NoMatch
  ELSE LET j == i + 1 + (IF At(s, i + 1) = " " THEN 1 ELSE 0)
       IN  IF AllIn(s, j, 7, Digit) /\ At(s, j + 7) \notin Alnum
           THEN [e |-> j + 7, a |-> i, b |-> i + 1, c |-> j, d |-> j + 7]
           ELSE NoMatch

\* [a-zA-Z0-9.\-_]
UpiHandleChar == Alnum \cup {".", "-", "_"}

\* the match of a handle of h characters at position i and a provider of p
UpiMatch(s, i, h, p) ==
  IF h >= 2 /\ At(s, i + h) = "@" /\ p >= 2
  THEN [e |-> i + h + 1 + p, a |-> i, b |-> i + h, c |-> i + h + 1, d |-> i + h + 1 + p]
  ELSE NoMatch

UpiProvider(s, i, h) == UpiMatch(s, i, h, RunLen(s, i + h + 1, Letter))

\* ([a-zA-Z0-9.\-_]{2,})@([a-zA-Z]{2,}): both groups are greedy, and no
\* shorter handle can be followed by "@", which is not a handle character
RE_UPI(s, i) == UpiProvider(s, i, RunLen(s, i, UpiHandleChar))

\* [a-zA-Z0-9._%+\-]
EmailLocalChar == Alnum \cup {".", "_", "%", "+", "-"}

\* [A-Za-z0-9.\-]
EmailDomainChar == Alnum \cup {".", "-"}

\* the offsets k into the domain run of m characters at position p where a
\* "." is followed by two letters
TldDots(s, p, m) ==
  { k \in 1..(m - 1) :
      /\ At(s, p + k) = "."
      /\ At(s, p + k + 1) \in Letter
      /\ At(s, p + k + 2) \in Letter }

\* the match with the local part i..p-2, the domain from p and its last
\* label after the "." at p + k
EmailMatch(s, i, p, k, t) ==
  [e |-> p + k + 1 + t, a |-> i, b |-> p - 1, c |-> p, d |-> p + k + 1 + t]

EmailTld(s, i, p, k) == EmailMatch(s, i, p, k, RunLen(s, p + k + 1, Letter))

EmailLastDot(s, i, p, dots) ==
  IF dots = {} THEN NoMatch
  ELSE EmailTld(s, i, p, CHOOSE x \in dots : \A y \in dots : y <= x)

EmailDomain(s, i, l) ==
  IF l >= 2 /\ At(s, i + l) = "@"
  THEN EmailLastDot(s, i, i + l + 1,
                    TldDots(s, i + l + 1, RunLen(s, i + l + 1, EmailDomainChar)))
  ELSE NoMatch

\* ([a-zA-Z0-9._%+\-]{2,})@([A-Za-z0-9.\-]+\.[A-Za-z]{2,}): the domain
\* run is greedy and gives back characters until a "." followed by two
\* letters is found, so the last such "." of the run is taken; the letters
\* after it are greedy
RE_EMAIL(s, i) == EmailDomain(s, i, RunLen(s, i, EmailLocalChar))

\* the position after n digits and a "." at position i, or 0
OctetDotN(s, i, n) ==
  IF i > 0 /\ n >= 1 /\ n <= 3 /\ At(s, i + n) = "." THEN i + n + 1 ELSE 0

\* \d{1,3}\. tried at position i: the position after the ".", or 0
OctetDot(s, i) == OctetDotN(s, i, RunLen(s, i, Digit))

\* the match of three octets from i to o3 - 1 and a last octet of n digits
IpMatch(s, i, o3, n) ==
  IF /\ At(s, i - 1) \notin WordChar
     /\ o3 > 0
     /\ n >= 1 /\ n <= 3
     /\ At(s, o3 + n) \notin WordChar
  THEN [e |-> o3 + n, a |-> i, b |-> o3 + n, c |-> 0, d |-> 0]
  ELSE NoMatch

IpLastOctet(s, i, o3) == IpMatch(s, i, o3, RunLen(s, o3, Digit))

\* \b((?:\d{1,3}\.){3}\d{1,3})\b: an octet takes every digit of its run, as
\* no "." and no \b lies inside a run of digits
RE_IP(s, i) == IpLastOctet(s, i, OctetDot(s, OctetDot(s, OctetDot(s, i))))

\* the three runs of the name pattern take all of s
NameRuns(s, n1, n2, n3) == n1 >= 2 /\ n2 >= 1 /\ n3 >= 2 /\ n1 + n2 + n3 = Len(s)

NameSecond(s, n1, n2) == NameRuns(s, n1, n2, RunLen(s, n1 + n2 + 1, Letter))

NameSeparator(s, n1) == NameSecond(s, n1, RunLen(s, n1 + 1, {" ", ","}))

\* ^[A-Za-z]{2,}[ ,]+[A-Za-z]{2,}$ matched against the whole of s (the
\* caller strips s, so the "$" before a final newline never applies)
RE_NAME_TWO_PARTS(s) == NameSeparator(s, RunLen(s, 1, Letter))

\* (?<!\d)(\d{6})(?!\d)
RE_PINCODE(s, i) ==
  IF At(s, i - 1) \notin Digit /\ AllIn(s, i, 6, Digit) /\ At(s, i + 6) \notin Digit
  THEN [e |-> i + 6, a |-> i, b |-> i + 6, c |-> 0, d |-> 0]
  ELSE NoMatch

\* the pattern named re tried at position i of s
MatchAt(re, s, i) ==
  CASE re = "RE_PHONE_STRICT" -> RE_PHONE_STRICT(s, i)
    [] re = "RE_AADHAR" -> RE_AADHAR(s, i)
    [] re = "RE_PASSPORT_IN" -> RE_PASSPORT_IN(s, i)
    [] re = "RE_UPI" -> RE_UPI(s, i)
    [] re = "RE_EMAIL" -> RE_EMAIL(s, i)
    [] re = "RE_IP" -> RE_IP(s, i)
    [] re = "RE_PINCODE" -> RE_PINCODE(s, i)

\* re.search(s): the match at the leftmost position that has one, or NoMatch
RECURSIVE SearchFrom(_, _, _)

SearchStep(re, s, i, m) == IF m.e # 0 THEN m ELSE SearchFrom(re, s, i + 1)

SearchFrom(re, s, i) ==
  IF i > Len(s) THEN NoMatch ELSE SearchStep(re, s, i, MatchAt(re, s, i))

Search(re, s) == SearchFrom(re, s, 1)

Found(re, s) == Search(re, s).e # 0

\* re.sub(repl, s) from position i on: the text before a match is kept, the
\* match is replaced, and the scan goes on where the match ended.  mk names
\* the replacement function and fixed is the replacement of a template
RECURSIVE SubFrom(_, _, _, _, _)

----------------------------------------------------------------------------
(* The key sets                                                            *)

PHONE_LIKE_KEYS ==
  { <<"p","h","o","n","e">>,
    <<"c","o","n","t","a","c","t">>,
    <<"m","o","b","i","l","e">>,
    <<"a","l","t","_","p","h","o","n","e">>,
    <<"p","h","o","n","e","_","n","u","m","b","e","r">> }

ADDRESS_KEYS ==
  { <<"a","d","d","r","e","s","s">>,
    <<"s","h","i","p","p","i","n","g","_","a","d","d","r","e","s","s">>,
    <<"b","i","l","l","i","n","g","_","a","d","d","r","e","s","s">> }

NAME_KEYS ==
  { <<"n","a","m","e">>,
    <<"f","u","l","l","_","n","a","m","e">> }

SAFE_NUMERIC_ID_KEYS ==
  { <<"o","r","d","e","r","_","i","d">>,
    <<"t","r","a","n","s","a","c","t","i","o","n","_","i","d">>,
    <<"p","r","o","d","u","c","t","_","i","d">>,
    <<"t","i","c","k","e","t","_","i","d">>,
    <<"w","a","r","e","h","o","u","s","e","_","c","o","d","e">>,
    <<"c","u","s","t","o","m","e","r","_","i","d">>,
    <<"g","s","t","_","n","u","m","b","e","r">>,
    <<"s","t","a","t","e","_","c","o","d","e">>,
    <<"b","o","o","k","i","n","g","_","r","e","f","e","r","e","n","c","e">> }

FIRST_NAME == <<"f","i","r","s","t","_","n","a","m","e">>
LAST_NAME == <<"l","a","s","t","_","n","a","m","e">>
DEVICE_ID == <<"d","e","v","i","c","e","_","i","d">>
IP_ADDRESS == <<"i","p","_","a","d","d","r","e","s","s">>

----------------------------------------------------------------------------
(* The maskers                                                             *)

\* the first two octets of the address that starts at position i: what
\* ".".join(m.group(1).split(".")[:2]) keeps
TwoOctets(s, i) == Slice(s, i, OctetDot(s, OctetDot(s, i)) - 1)

\* the replacement of the match m of s
Replacement(mk, fixed, s, m) ==
  CASE mk = "template" -> fixed
    [] mk = "mask_aadhar" ->
         <<"X","X","X","X","-","X","X","X","X","-","X","X","X","X">>
    [] mk = "mask_passport" ->
         <<UpperOf(s[m.a])>> \o Rep("X", 6) \o <<s[m.d - 1]>>
    [] mk = "mask_upi" ->
         LET g == Slice(s, m.a, m.b)
         IN  SubSeq(g, 1, 2) \o Rep("*", Max(1, Len(g) - 3)) \o <<g[Len(g)]>>
               \o <<"@">> \o Slice(s, m.c, m.d)
    [] mk = "mask_email" ->
         LET g == Slice(s, m.a, m.b)
         IN  SubSeq(g, 1, 2) \o Rep("*", Max(1, Len(g) - 2))
               \o <<"@">> \o Slice(s, m.c, m.d)
    [] mk = "mask_ip" ->
         TwoOctets(s, m.a) \o <<".","*",".","*">>

SubStep(re, mk, fixed, s, i, m) ==
  IF m.e = 0
  THEN <<s[i]>> \o SubFrom(re, mk, fixed, s, i + 1)
  ELSE Replacement(mk, fixed, s, m) \o SubFrom(re, mk, fixed, s, m.e)

SubFrom(re, mk, fixed, s, i) ==
  IF i > Len(s) THEN <<>> ELSE SubStep(re, mk, fixed, s, i, MatchAt(re, s, i))

Sub(re, mk, fixed, s) == SubFrom(re, mk, fixed, s, 1)

\* num[:2] + "XXXXXX" + num[-2:]
PhoneMasked(num) ==
  SubSeq(num, 1, 2) \o Rep("X", 6) \o SubSeq(num, Len(num) - 1, Len(num))

\* the replacement is computed from the first match m and used for every match
MaskPhoneWith(val, m) ==
  IF m.e = 0 THEN val
  ELSE Sub("RE_PHONE_STRICT", "template", PhoneMasked(Slice(val, m.a, m.b)), val)

mask_phone(val) == MaskPhoneWith(val, Search("RE_PHONE_STRICT", val))

mask_aadhar(val) == Sub("RE_AADHAR", "mask_aadhar", <<>>, val)

mask_passport(val) == Sub("RE_PASSPORT_IN", "mask_passport", <<>>, val)

mask_upi(val) == Sub("RE_UPI", "mask_upi", <<>>, val)

mask_email(val) == Sub("RE_EMAIL", "mask_email", <<>>, val)

mask_ip(val) == Sub("RE_IP", "mask_ip", <<>>, val)

\* p[0].upper() + "XXX" for each part of s from position i on that
\* re.split(r'\s+', ...) gives, joined by " "
RECURSIVE NameParts(_, _)

NameJoin(first, rest) ==
  <<UpperOf(first), "X", "X", "X">> \o (IF rest = <<>> THEN <<>> ELSE <<" ">> \o rest)

NamePart(s, j) ==
  IF j > Len(s) THEN <<>>
  ELSE NameJoin(s[j], NameParts(s, j + RunLenNot(s, j, Space)))

NameParts(s, i) == NamePart(s, i + RunLen(s, i, Space))

mask_name_like(val) == NameParts(Strip(val), 1)

----------------------------------------------------------------------------
(* The field classifiers                                                   *)

\* len(re.sub(r'\D', '', val))
DigitCount(val) == Cardinality({ i \in DOMAIN val : val[i] \in Digit })

is_phone_value(key, val) ==
  IF key \in SAFE_NUMERIC_ID_KEYS THEN FALSE
  ELSE IF LowerStr(key) \in PHONE_LIKE_KEYS /\ Found("RE_PHONE_STRICT", val) THEN TRUE
  ELSE DigitCount(val) = 10 /\ Found("RE_PHONE_STRICT", val)

contains_aadhar(val) == Found("RE_AADHAR", val)

contains_passport(val) == Found("RE_PASSPORT_IN", val)

contains_upi(val) == Found("RE_UPI", val)

contains_email(val) == Found("RE_EMAIL", val)

looks_like_full_name(val) == RE_NAME_TWO_PARTS(Strip(val))

\* int(p) of the octet at position i is at most 255 (it is never negative)
OctetOk(s, i) == IntOf(Slice(s, i, i + RunLen(s, i, Digit))) <= 255

\* the check of the four parts of m.group(1).split(".")
IpOctetsOk(s, m) ==
  /\ m.e # 0
  /\ OctetOk(s, m.a)
  /\ OctetOk(s, OctetDot(s, m.a))
  /\ OctetOk(s, OctetDot(s, OctetDot(s, m.a)))
  /\ OctetOk(s, OctetDot(s, OctetDot(s, OctetDot(s, m.a))))

\* only the first match is looked at
contains_ip(val) == IpOctetsOk(val, Search("RE_IP", val))

street_tokens ==
  << <<"s","t","r","e","e","t">>, <<"s","t",".">>, <<"r","o","a","d">>,
     <<"r","d",".">>, <<"l","a","n","e">>, <<"b","l","o","c","k">>,
     <<"s","e","c","t","o","r">>, <<"a","p","t">>,
     <<"a","p","a","r","t","m","e","n","t">>, <<"f","l","o","o","r">>,
     <<"p","h","a","s","e">> >>

contains_address(val) ==
  /\ Found("RE_PINCODE", val)
  /\ \E k \in DOMAIN street_tokens : HasSubstring(LowerStr(val), street_tokens[k])
  /\ \E i \in DOMAIN val : val[i] \in Digit

----------------------------------------------------------------------------
(* Values and records                                                      *)

\* A value of a record: a str (kind "str", text the string), a dict or list
\* (kind "obj", json its json.dumps and text its str()), or any other scalar
\* (kind "num", text its str()).
StrVal(s) == [kind |-> "str", text |-> s, json |-> s]
NumVal(s) == [kind |-> "num", text |-> s, json |-> s]
ObjVal(j, s) == [kind |-> "obj", text |-> s, json |-> j]

\* sval of the classification loop
sval_classify(val) == IF val.kind = "obj" THEN val.json ELSE val.text

\* sval of the combinatorial pass
sval_combo(val) == val.text

\* A mapping is the sequence of its items, in the dict's order.
Field(key, val) == [key |-> key, val |-> val]

\* m[key] = val, for a key the mapping has
SetItem(m, key, val) ==
  [j \in DOMAIN m |-> IF m[j].key = key THEN Field(key, val) ELSE m[j]]

\* The heap is the sequence of the dicts allocated so far, a reference is an
\* index into it.  dict(record): a new dict with the items of the old one.
dict_alias(h, ref) == [heap |-> h, ref |-> ref]

dict_copy(h, ref) == [heap |-> Append(h, h[ref]), ref |-> Len(h) + 1]

\* h with dict ref changed by ref[key] = val
Store(h, ref, key, val) == [h EXCEPT ![ref] = SetItem(h[ref], key, val)]

----------------------------------------------------------------------------
(* detect_and_redact                                                       *)

\* the standalone category the if-chain of the classification loop selects
\* for a field, or "none"
StandaloneCategory(lowkey, sval) ==
  IF is_phone_value(lowkey, sval) THEN "phone"
  ELSE IF contains_aadhar(sval) THEN "aadhar"
  ELSE IF contains_passport(sval) THEN "passport"
  ELSE IF contains_upi(sval) THEN "upi"
  ELSE "none"

StandaloneMask(cat, sval) ==
  CASE cat = "phone" -> mask_phone(sval)
    [] cat = "aadhar" -> mask_aadhar(sval)
    [] cat = "passport" -> mask_passport(sval)
    [] cat = "upi" -> mask_upi(sval)

\* the combinatorial signals the five ifs of the classification loop add
FieldSignals(lowkey, sval) ==
  (IF \/ lowkey \in NAME_KEYS /\ looks_like_full_name(sval)
      \/ lowkey \in {FIRST_NAME, LAST_NAME} /\ Len(Strip(sval)) >= 2
   THEN {"name"} ELSE {})
  \cup (IF contains_email(sval) THEN {"email"} ELSE {})
  \cup (IF lowkey \in ADDRESS_KEYS /\ contains_address(sval) THEN {"address"} ELSE {})
  \cup (IF lowkey = DEVICE_ID /\ Len(Strip(sval)) >= 6 THEN {"device"} ELSE {})
  \cup (IF lowkey = IP_ADDRESS /\ contains_ip(sval) THEN {"ip"} ELSE {})

\* one iteration of the classification loop without its "continue"s
ClassifyWith_no_continue(lowkey, sval, cat) ==
  IF cat # "none"
  THEN [hit |-> TRUE, masked |-> StandaloneMask(cat, sval),
        signals |-> FieldSignals(lowkey, sval)]
  ELSE [hit |-> FALSE, masked |-> sval, signals |-> FieldSignals(lowkey, sval)]

\* one iteration of the classification loop for a field of standalone
\* category cat: a standalone hit masks the field and continues with the
\* next field, adding no signal
ClassifyWith(lowkey, sval, cat) ==
  IF cat # "none"
  THEN [hit |-> TRUE, masked |-> StandaloneMask(cat, sval), signals |-> {}]
  ELSE [hit |-> FALSE, masked |-> sval, signals |-> FieldSignals(lowkey, sval)]

ClassifyField(key, val) ==
  ClassifyWith(LowerStr(key), sval_classify(val),
               StandaloneCategory(LowerStr(key), sval_classify(val)))

\* the classification loop from item i of record on; st holds the heap,
\* standalone_found and combo_signals
RECURSIVE ClassifyFrom(_, _, _, _)

\* the state after the iteration for field f, classified as c
ClassifyStep(st, rd, f, c) ==
  [heap |-> IF c.hit THEN Store(st.heap, rd, f.key, StrVal(c.masked)) ELSE st.heap,
   standalone_found |-> st.standalone_found \/ c.hit,
   combo_signals |-> st.combo_signals \cup c.signals]

ClassifyItem(st, rec, rd, i, f) ==
  ClassifyFrom(ClassifyStep(st, rd, f, ClassifyField(f.key, f.val)), rec, rd, i + 1)

ClassifyFrom(st, rec, rd, i) ==
  IF i > Len(st.heap[rec]) THEN st
  ELSE ClassifyItem(st, rec, rd, i, st.heap[rec][i])

\* the verdict without the device/ip downgrade
Verdict_no_downgrade(found, signals) ==
  IF Cardinality(signals) >= 2 THEN TRUE ELSE found

\* the verdict with the standalone hits forgotten below two signals
Verdict_ignores_standalone(found, signals) ==
  IF Cardinality(signals) >= 2
  THEN IF /\ ("device" \in signals \/ "ip" \in signals)
          /\ ~("name" \in signals \/ "email" \in signals \/ "address" \in signals)
       THEN found
       ELSE TRUE
  ELSE FALSE

\* is_pii from standalone_found and combo_signals
Verdict(found, signals) ==
  IF Cardinality(signals) >= 2
  THEN IF /\ ("device" \in signals \/ "ip" \in signals)
          /\ ~("name" \in signals \/ "email" \in signals \/ "address" \in signals)
       THEN found
       ELSE TRUE
  ELSE found

\* sval[0].upper() + "XXX" if sval else sval
Initial(sval) == IF sval # <<>> THEN <<UpperOf(sval[1]), "X", "X", "X">> ELSE sval

\* what the combinatorial pass stores for a field: the elif chain
ComboWith(lowkey, sval) ==
  IF lowkey \in NAME_KEYS /\ looks_like_full_name(sval)
    THEN [write |-> TRUE, masked |-> mask_name_like(sval)]
  ELSE IF lowkey = FIRST_NAME THEN [write |-> TRUE, masked |-> Initial(sval)]
  ELSE IF lowkey = LAST_NAME THEN [write |-> TRUE, masked |-> Initial(sval)]
  ELSE IF contains_email(sval) THEN [write |-> TRUE, masked |-> mask_email(sval)]
  ELSE IF lowkey \in ADDRESS_KEYS /\ contains_address(sval)
    THEN [write |-> TRUE,
          masked |-> <<"[","R","E","D","A","C","T","E","D","_",
                       "A","D","D","R","E","S","S","]">>]
  ELSE IF lowkey = IP_ADDRESS /\ contains_ip(sval)
    THEN [write |-> TRUE, masked |-> mask_ip(sval)]
  ELSE IF lowkey = DEVICE_ID /\ Len(Strip(sval)) >= 6
    THEN [write |-> TRUE,
          masked |-> <<"[","R","E","D","A","C","T","E","D","_",
                       "D","E","V","I","C","E","_","I","D","]">>]
  ELSE [write |-> FALSE, masked |-> sval]

ComboField(key, val) == ComboWith(LowerStr(key), sval_combo(val))

\* the combinatorial pass from item i of record on: it reads record and
\* writes red
RECURSIVE ComboFrom(_, _, _, _)

ComboStep(h, rd, f, c) ==
  IF c.write THEN Store(h, rd, f.key, StrVal(c.masked)) ELSE h

ComboItem(h, rec, rd, i, f) ==
  ComboFrom(ComboStep(h, rd, f, ComboField(f.key, f.val)), rec, rd, i + 1)

ComboFrom(h, rec, rd, i) ==
  IF i > Len(h[rec]) THEN h ELSE ComboItem(h, rec, rd, i, h[rec][i])

\* the six standalone maskers, in the order of the final sweep
SweepValue(v) ==
  mask_ip(mask_email(mask_upi(mask_passport(mask_aadhar(mask_phone(v))))))

\* the final sweep over the items of a mapping: only str values are masked
StandaloneSweep(m) ==
  [j \in DOMAIN m |->
     IF m[j].val.kind = "str"
     THEN Field(m[j].key, StrVal(SweepValue(m[j].val.text)))
     ELSE m[j]]

----------------------------------------------------------------------------
(* The records detect_and_redact is called with                            *)

\* how many fields a record has at most
MaxFields == 2

\* how many times the sweep is applied again to a returned record
MaxResweeps == 2

KeyOfPhone == <<"p","h","o","n","e">>
KeyOfNote == <<"n","o","t","e">>
KeyOfEmail == <<"e","m","a","i","l">>
KeyOfName == <<"n","a","m","e">>
KeyOfAddress == <<"a","d","d","r","e","s","s">>
KeyOfCustomerId == <<"c","u","s","t","o","m","e","r","_","i","d">>

PhoneNumber == <<"9","8","7","6","5","4","3","2","1","0">>
RaviEmail ==
  <<"r","a","v","i",".","k","u","m","a","r","@",
    "e","x","a","m","p","l","e",".","c","o","m">>
ChainedHandles == <<"A","1","2","3","4","5","6","7","@","a","b","@","c","d">>

\* the fields records are made of
FieldPool ==
  { Field(KeyOfPhone, StrVal(PhoneNumber)),
    Field(<<"P","h","o","n","e">>,
          StrVal(<<"9","8","7","6","5","4","3","2","1","0"," ",
                   "8","7","6","5","4","3","2","1","0","9">>)),
    Field(KeyOfPhone, NumVal(PhoneNumber)),
    Field(KeyOfCustomerId, StrVal(PhoneNumber)),
    Field(<<"a","a","d","h","a","r">>,
          StrVal(<<"1","2","3","4"," ","5","6","7","8"," ","9","0","1","2">>)),
    Field(KeyOfNote, StrVal(<<"A","1","2","3","4","5","6","7">>)),
    Field(KeyOfNote, StrVal(<<"a","b","@","c","d">>)),
    Field(KeyOfNote, StrVal(<<"h","e","l","l","o">>)),
    Field(KeyOfNote, StrVal(ChainedHandles)),
    Field(KeyOfEmail, StrVal(<<"a","b","@","x","1",".","i","o">>)),
    Field(KeyOfEmail, StrVal(RaviEmail)),
    Field(KeyOfName, StrVal(<<"R","a","v","i"," ","K","u","m","a","r">>)),
    Field(FIRST_NAME, StrVal(<<"R","a","v","i">>)),
    Field(KeyOfAddress,
          StrVal(<<"B","l","o","c","k"," ","5"," ","5","6","0","0","0","1">>)),
    Field(KeyOfAddress,
          StrVal(<<"B","l","o","c","k"," ","1","2","3","4"," ","5","6","7","8"," ",
                   "9","0","1","2"," ","5","6","0","0","0","1">>)),
    Field(DEVICE_ID, StrVal(<<"d","e","v","-","1","2","3","4","5","6","7","8">>)),
    Field(DEVICE_ID, StrVal(PhoneNumber)),
    Field(IP_ADDRESS, StrVal(<<"1","9","2",".","1","6","8",".","1",".","1","0">>)),
    Field(IP_ADDRESS, StrVal(<<"3","0","0",".","1",".","1",".","1">>)),
    Field(<<"t","a","g","s">>,
          ObjVal(<<"[","\"","a","b","@","c","d","\"","]">>,
                 <<"[","'","a","b","@","c","d","'","]">>)) }

\* the records: at most MaxFields fields, no key twice
Records ==
  UNION { { m \in [1..n -> FieldPool] :
              \A i, j \in 1..n : m[i].key = m[j].key => i = j } : n \in 0..MaxFields }

----------------------------------------------------------------------------
(* The state machine: one call of detect_and_redact, pass by pass          *)

VARIABLES
  heap,              \* the dicts
  record,            \* the parameter: a reference
  red,               \* the local red: a reference, 0 before its assignment
  standalone_found,
  combo_signals,
  combo_score,
  is_pii,
  pc,                \* "call", "score", "combo", "sweep", "done"
  arg,               \* history: the items of the record at the call
  ran,               \* history: the passes that have written to red
  swept,             \* the returned record after nsweeps more sweeps
  nsweeps

vars ==
  << heap, record, red, standalone_found, combo_signals, combo_score, is_pii,
     pc, arg, ran, swept, nsweeps >>

Init ==
  /\ arg \in Records
  /\ heap = <<arg>>
  /\ record = 1
  /\ red = 0
  /\ standalone_found = FALSE
  /\ combo_signals = {}
  /\ combo_score = 0
  /\ is_pii = FALSE
  /\ pc = "call"
  /\ ran = {}
  /\ swept = <<>>
  /\ nsweeps = 0

\* the locals after the classification loop that ended in st
Classified(ref, st) ==
  /\ red' = ref
  /\ heap' = st.heap
  /\ standalone_found' = st.standalone_found
  /\ combo_signals' = st.combo_signals
  /\ ran' = IF st.standalone_found THEN {"initial"} ELSE {}

\* the classification loop over record, writing the dict cp makes
ClassifyInto(cp) ==
  Classified(cp.ref,
             ClassifyFrom([heap |-> cp.heap, standalone_found |-> FALSE,
                           combo_signals |-> {}], record, cp.ref, 1))

\* red = dict(record) and the classification loop with its initial masking
Classify ==
  /\ pc = "call"
  /\ ClassifyInto(dict_copy(heap, record))
  /\ pc' = "score"
  /\ UNCHANGED << record, combo_score, is_pii, arg, swept, nsweeps >>

\* combo_score and the verdict
Score ==
  /\ pc = "score"
  /\ combo_score' = Cardinality(combo_signals)
  /\ is_pii' = Verdict(standalone_found, combo_signals)
  /\ pc' = "combo"
  /\ UNCHANGED << heap, record, red, standalone_found, combo_signals, arg, ran,
                  swept, nsweeps >>

\* the combinatorial pass, run when the verdict is PII with a signal
ComboPass ==
  /\ pc = "combo"
  /\ IF is_pii /\ combo_score > 0
     THEN /\ heap' = ComboFrom(heap, record, red, 1)
          /\ ran' = ran \cup {"combo"}
     ELSE UNCHANGED << heap, ran >>
  /\ pc' = "sweep"
  /\ UNCHANGED << record, red, standalone_found, combo_signals, combo_score,
                  is_pii, arg, swept, nsweeps >>

\* the final sweep, run when the verdict is PII, and the return
FinalSweep ==
  /\ pc = "sweep"
  /\ IF is_pii
     THEN /\ heap' = [heap EXCEPT ![red] = StandaloneSweep(heap[red])]
          /\ ran' = ran \cup {"sweep"}
     ELSE UNCHANGED << heap, ran >>
  /\ pc' = "done"
  /\ UNCHANGED << record, red, standalone_found, combo_signals, combo_score,
                  is_pii, arg, swept, nsweeps >>

\* the standalone sweep applied once more to the record returned as PII
Resweep ==
  /\ pc = "done"
  /\ is_pii
  /\ nsweeps < MaxResweeps
  /\ swept' = StandaloneSweep(IF nsweeps = 0 THEN heap[red] ELSE swept)
  /\ nsweeps' = nsweeps + 1
  /\ UNCHANGED << heap, record, red, standalone_found, combo_signals,
                  combo_score, is_pii, pc, arg, ran >>

Next == Classify \/ Score \/ ComboPass \/ FinalSweep \/ Resweep

Spec == Init /\ [][Next]_vars

----------------------------------------------------------------------------
(* The claims                                                              *)

\* the lower-cased key and the classified text of field i of the input
LowKey(i) == LowerStr(arg[i].key)
Sval(i) == sval_classify(arg[i].val)

\* the fields of the input that match a standalone category
StandaloneFields ==
  { i \in DOMAIN arg : StandaloneCategory(LowKey(i), Sval(i)) # "none" }

\* the signals whose predicate holds for some field of the input
AllSignals == UNION { FieldSignals(LowKey(i), Sval(i)) : i \in DOMAIN arg }

\* the signals whose predicate holds for a field with no standalone match
PlainSignals ==
  UNION { FieldSignals(LowKey(i), Sval(i)) : i \in DOMAIN arg \ StandaloneFields }

\* at least two signals, one of them name, email or address
Identifying(signals) ==
  Cardinality(signals) >= 2 /\ signals \cap {"name", "email", "address"} # {}

\* the whole of s is one email address
IsEmailAddress(s) == RE_EMAIL(s, 1).e = Len(s) + 1

\* s with each phone number replaced by its own first two digits, the mask
\* and its own last two digits
RECURSIVE MaskEachPhoneFrom(_, _)

MaskEachPhoneStep(s, i, m) ==
  IF m.e = 0
  THEN <<s[i]>> \o MaskEachPhoneFrom(s, i + 1)
  ELSE PhoneMasked(Slice(s, m.a, m.b)) \o MaskEachPhoneFrom(s, m.e)

MaskEachPhoneFrom(s, i) ==
  IF i > Len(s) THEN <<>> ELSE MaskEachPhoneStep(s, i, RE_PHONE_STRICT(s, i))

\* s holds a match of one of the four standalone patterns
HasStandalonePattern(s) ==
  \/ Found("RE_PHONE_STRICT", s)
  \/ Found("RE_AADHAR", s)
  \/ Found("RE_PASSPORT_IN", s)
  \/ Found("RE_UPI", s)

Scored == pc \in {"combo", "sweep", "done"}

\* the verdict for a record with or without a standalone match (hit), with
\* the signals the loop collected and the signals of all its fields
VerdictIs(hit, collected, all) ==
  /\ is_pii <=> (hit \/ Identifying(collected))
  /\ is_pii <=> (hit \/ Identifying(all))
  /\ (~hit /\ collected \subseteq {"device", "ip"}) => ~is_pii

\* C1: is_pii is true exactly when some field matched a standalone category
\* or the set of distinct combinatorial signals has at least two members, one
\* of them name, email or address; this holds of the signals the loop
\* collected and of the signals of all fields alike.  A record with no
\* standalone match whose signals are device and ip is not PII.
C1_Verdict == Scored => VerdictIs(StandaloneFields # {}, combo_signals, AllSignals)

\* C1: a record with the signals device and ip alone is returned as not PII
C1_Witness == pc = "done" /\ combo_signals = {"device", "ip"} /\ ~is_pii

\* C2: when detect_and_redact returns is_pii = false, the returned record
\* equals the input record item by item, and no pass has written to it
C2_Unmodified ==
  (pc = "done" /\ ~is_pii) => (heap[red] = arg /\ ran = {})

\* C2: a record with a single signal is returned as not PII, in a dict of
\* its own
C2_Witness ==
  pc = "done" /\ ~is_pii /\ Cardinality(combo_signals) = 1 /\ red # record

\* C3: the dict passed to detect_and_redact holds the items it held at the
\* call, at every point of the call
C3_InputNotMutated == heap[record] = arg

\* C3: a call in which all three passes wrote returns a record that differs
\* from the input
C3_Witness ==
  pc = "done" /\ ran = {"initial", "combo", "sweep"} /\ heap[red] # heap[record]

\* field i holds a two-token name under a name key
IsNameField(i) ==
  /\ arg[i].val.kind = "str"
  /\ LowKey(i) \in NAME_KEYS
  /\ looks_like_full_name(arg[i].val.text)

\* field i holds an email address
IsEmailField(i) == arg[i].val.kind = "str" /\ IsEmailAddress(arg[i].val.text)

\* C4: for a record with a two-token name under a name key and a field
\* holding an email address, the signal set contains name and email, the
\* score is at least 2, is_pii is true, the name is returned in initials form
\* and the email with its local part masked after two characters
C4_NameAndEmail ==
  pc = "done" =>
    \A i, j \in DOMAIN arg :
      (IsNameField(i) /\ IsEmailField(j)) =>
        /\ {"name", "email"} \subseteq combo_signals
        /\ combo_score >= 2
        /\ is_pii
        /\ heap[red][i].val = StrVal(mask_name_like(arg[i].val.text))
        /\ heap[red][j].val = StrVal(mask_email(arg[j].val.text))

\* field i holds a phone-shaped str under a key of the deny-list
IsDeniedPhoneField(i) ==
  /\ arg[i].val.kind = "str"
  /\ LowKey(i) \in SAFE_NUMERIC_ID_KEYS
  /\ Found("RE_PHONE_STRICT", arg[i].val.text)

\* C5: a phone-shaped value under a key of the numeric-ID deny-list is no
\* phone standalone hit and is not returned phone-masked, whatever other
\* fields the record holds
C5_DenyListed ==
  pc = "done" =>
    \A i \in DOMAIN arg :
      IsDeniedPhoneField(i) =>
        /\ StandaloneCategory(LowKey(i), Sval(i)) # "phone"
        /\ heap[red][i].val.text # mask_phone(arg[i].val.text)

\* C6: for a value matching the phone rule under a phone-like key, is_pii is
\* true and every phone number of the value is returned as its own first two
\* digits, the mask and its own last two digits
C6_PhoneMasked ==
  pc = "done" =>
    \A i \in DOMAIN arg :
      (LowKey(i) \in PHONE_LIKE_KEYS /\ Found("RE_PHONE_STRICT", Sval(i))) =>
        /\ is_pii
        /\ heap[red][i].val.text = MaskEachPhoneFrom(Sval(i), 1)

\* C7: the standalone sweep applied again to a record returned as PII, once
\* or twice, changes no field
C7_SweepIdempotent == nsweeps > 0 => swept = heap[red]

\* C8: a record whose only field holds an ordinary email address, with no
\* phone, national-id or passport value, has combo_score 1 and no standalone
\* hit, and is returned unchanged as not PII
C8_EmailAlone ==
  ( /\ pc = "done"
    /\ Len(arg) = 1
    /\ IsEmailField(1)
    /\ ~Found("RE_PHONE_STRICT", arg[1].val.text)
    /\ ~Found("RE_AADHAR", arg[1].val.text)
    /\ ~Found("RE_PASSPORT_IN", arg[1].val.text) ) =>
      /\ combo_score = 1
      /\ ~standalone_found
      /\ ~is_pii
      /\ heap[red] = arg

\* C9, as claimed: every field adds the signals whose predicate holds for it
\* to the signal set, also a field that matched a standalone category
C9_EveryFieldContributes == pc # "call" => AllSignals \subseteq combo_signals

\* the signal set, and the score once it is computed, are those of plain
SignalsAre(plain) ==
  /\ combo_signals = plain
  /\ Scored => combo_score = Cardinality(plain)

\* C9, amended: the signal set is the set of the signals of the fields that
\* matched no standalone category, a field that matched one adds none, and
\* combo_score counts the signals of the former only
C9_PlainFieldsContribute == pc # "call" => SignalsAre(PlainSignals)

\* C9: a returned record with a field that matched a standalone category and
\* carries a signal that is not in the signal set
C9_Witness ==
  /\ pc = "done"
  /\ \E i \in StandaloneFields :
       FieldSignals(LowKey(i), Sval(i)) \ combo_signals # {}

\* C10: no str field of a record returned as PII holds a match of a
\* standalone pattern (phone, national-id, passport, payment-handle)
C10_NoStandaloneLeft ==
  (pc = "done" /\ is_pii) =>
    \A i \in DOMAIN heap[red] :
      heap[red][i].val.kind = "str" => ~HasStandalonePattern(heap[red][i].val.text)

====
